---- MODULE Spec2Model ----
(***************************************************************************)
(* The numbers-game search engine of src/main.cpp: expression trees, the   *)
(* operator table, Best/better, and the three strategies dfs, dfs_mem and  *)
(* astar, run one after the other on the same (target, numbers) input the  *)
(* way run_test runs them.                                                 *)
(*                                                                         *)
(* double values are modelled as exact fractions <<n, d>> in lowest terms  *)
(* with d > 0, extended by the IEEE specials <<1, 0>> (+inf), <<-1, 0>>    *)
(* (-inf) and <<0, 0>> (NaN) that the unchecked divisions of solve_right,  *)
(* solve_left and of the ratio heuristics produce.  Zero carries no sign:  *)
(* a sign of zero can only change the sign of an infinity, and no memo key *)
(* and no evaluated value is ever infinite.                                *)
(***************************************************************************)
EXTENDS Integers, Sequences, FiniteSets, TLC

VARIABLES
    target,     \* run_test's target
    given,      \* the numbers as the caller writes them, a braced list
    input,      \* run_test's numbers, the set<double> built from that list
    argOrder,   \* the order in which this build evaluates the arguments of a call
    pc,         \* which entry point is running: "dfs", "dfs_mem", "astar", "done", "crashed"
    stack,      \* the activation records of dfs / dfs_mem, innermost last
    explored,   \* the explored counter of the running entry point
    mem,        \* the memo table of the running entry point
    best,       \* astar's local best
    q,          \* astar's priority_queue<Node>, as the heap array it is stored in
    cur,        \* astar's cur, the node popped last
    kid,        \* how many children of cur have been handed to emplace
    flags,      \* astar's use_mem, use_uniq_queue and heuristic
    result,     \* what each finished entry point returned
    fatal,      \* the exception that ended the program, or "none"
    event,      \* what the last step did: the site it evaluated at and what it scored
    exact       \* the first scored candidate of this run whose value equals the target

vars == <<target, given, input, argOrder, pc, stack, explored, mem, best, q, cur, kid,
          flags, result, fatal, event, exact>>

(***************************************************************************)
(* double arithmetic                                                       *)
(***************************************************************************)
Abs(x) == IF x < 0 THEN -x ELSE x

Sign(x) == IF x < 0 THEN -1 ELSE IF x > 0 THEN 1 ELSE 0

GCD[a \in Nat, b \in Nat] == IF b = 0 THEN a ELSE GCD[b, a % b]

Norm[n \in Int, d \in Int] ==
    IF d = 0 THEN <<Sign(n), 0>>
    ELSE LET g == GCD[Abs(n), Abs(d)]
         IN  <<(Sign(d) * n) \div g, Abs(d) \div g>>

\* the values a double takes here: <<n, d>>
Dbl == Int \X Int

R(i) == <<i, 1>>

Zero == <<0, 1>>

One == <<1, 1>>

NaN == <<0, 0>>

PosInf == <<1, 0>>

NegInf == <<-1, 0>>

IsNaN(a) == a = NaN

IsInf(a) == a[2] = 0 /\ a[1] # 0

IsFin(a) == a[2] > 0

RNeg[a \in Dbl] == <<-a[1], a[2]>>

RAdd[a \in Dbl, b \in Dbl] ==
    IF IsNaN(a) \/ IsNaN(b) THEN NaN
    ELSE IF IsInf(a) THEN (IF IsInf(b) /\ b # a THEN NaN ELSE a)
    ELSE IF IsInf(b) THEN b
    ELSE Norm[a[1] * b[2] + b[1] * a[2], a[2] * b[2]]

RSub[a \in Dbl, b \in Dbl] == RAdd[a, RNeg[b]]

RMul[a \in Dbl, b \in Dbl] ==
    IF IsNaN(a) \/ IsNaN(b) THEN NaN
    ELSE IF IsInf(a) \/ IsInf(b) THEN <<Sign(a[1]) * Sign(b[1]), 0>>
    ELSE Norm[a[1] * b[1], a[2] * b[2]]

\* the IEEE quotient a / b, which never traps: x/0 is an infinity, 0/0 is NaN
RQuot[a \in Dbl, b \in Dbl] ==
    IF IsNaN(a) \/ IsNaN(b) THEN NaN
    ELSE IF IsInf(a) THEN (IF IsInf(b) THEN NaN
                           ELSE <<a[1] * (IF b[1] < 0 THEN -1 ELSE 1), 0>>)
    ELSE IF IsInf(b) THEN Zero
    ELSE IF b[1] = 0 THEN <<Sign(a[1]), 0>>
    ELSE Norm[a[1] * b[2], a[2] * b[1]]

\* a < b on doubles: false as soon as one side is NaN
RLt[a \in Dbl, b \in Dbl] ==
    /\ ~IsNaN(a)
    /\ ~IsNaN(b)
    /\ a # b
    /\ \/ a = NegInf
       \/ b = PosInf
       \/ IsFin(a) /\ IsFin(b) /\ a[1] * b[2] < b[1] * a[2]

\* a == b on doubles
REq[a \in Dbl, b \in Dbl] == ~IsNaN(a) /\ a = b

RAbs[a \in Dbl] == <<Abs(a[1]), a[2]>>

(***************************************************************************)
(* Expression trees: Open is <<"o">>, Lit(v) is <<"l", v>> and an operator *)
(* node is <<c, left, right>> with c one of "+", "-", "*", "/".            *)
(***************************************************************************)
Open == <<"o">>

Lit(v) == <<"l", v>>

Op(c, l, r) == <<c, l, r>>

FreshOp(c) == Op(c, Open, Open)

OpNames == <<"+", "-", "*", "/">>

IsOpenNode(e) == Len(e) = 1

IsLit(e) == Len(e) = 2

IsOp(e) == Len(e) = 3

\* a predicate that finds holes everywhere
evaluable_never(e) == FALSE

RECURSIVE evaluable(_)
evaluable(e) ==
    IF IsOpenNode(e) THEN FALSE
    ELSE IF IsLit(e) THEN TRUE
    ELSE evaluable(e[2]) /\ evaluable(e[3])

RECURSIVE size(_)
size(e) ==
    IF IsOpenNode(e) THEN 1
    ELSE IF IsLit(e) THEN 0
    ELSE size(e[2]) + size(e[3])

RECURSIVE numbers(_)
numbers(e) ==
    IF IsOpenNode(e) THEN {}
    ELSE IF IsLit(e) THEN {e[2]}
    ELSE numbers(e[2]) \cup numbers(e[3])

RECURSIVE is_open(_)
is_open(e) ==
    IF IsOpenNode(e) THEN TRUE
    ELSE IF IsLit(e) THEN FALSE
    ELSE is_open(e[2]) /\ is_open(e[3])

RECURSIVE evaluate_missing(_)
evaluate_missing(e) ==
    IF IsOpenNode(e) THEN Zero
    ELSE IF IsLit(e) THEN R(e[2])
    ELSE IF is_open(e[2]) THEN evaluate_missing(e[3])
    ELSE IF is_open(e[3]) THEN evaluate_missing(e[2])
    ELSE Zero

(***************************************************************************)
(* The operator table.  A result is <<status, value>>: status "ok", or the *)
(* exception thrown: "dz" DivisionByZeroException, "open"                  *)
(* OpenNodeEvalException, "lit" RequiredLiteralNodeException.              *)
(***************************************************************************)
Ok(v) == <<"ok", v>>

Thrown(x) == <<x, NaN>>

eval(c, lhs, rhs) ==
    IF c = "+" THEN Ok(RAdd[lhs, rhs])
    ELSE IF c = "-" THEN Ok(RSub[lhs, rhs])
    ELSE IF c = "*" THEN Ok(RMul[lhs, rhs])
    ELSE IF REq[rhs, Zero] THEN Thrown("dz")
    ELSE Ok(RQuot[lhs, rhs])

solve_right(c, t, lhs) ==
    IF c = "+" THEN RSub[t, lhs]
    ELSE IF c = "-" THEN RSub[lhs, t]
    ELSE IF c = "*" THEN RQuot[t, lhs]
    ELSE RQuot[lhs, t]

solve_left(c, t, rhs) ==
    IF c = "+" THEN RSub[t, rhs]
    ELSE IF c = "-" THEN RAdd[t, rhs]
    ELSE IF c = "*" THEN RQuot[t, rhs]
    ELSE RMul[t, rhs]

\* C::eval(left->evaluate(), right->evaluate()): the two arguments are evaluated in
\* the build's order, and the first exception thrown is the one that propagates.
\* l and r are the two results, each computed once (CHOOSE over the one-element
\* set binds them).
RECURSIVE evaluate(_)
evaluate(e) ==
    IF IsOpenNode(e) THEN Thrown("open")
    ELSE IF IsLit(e) THEN Ok(R(e[2]))
    ELSE CHOOSE res \in
            {LET first == IF argOrder = "left" THEN l ELSE r
                 second == IF argOrder = "left" THEN r ELSE l
             IN  IF first[1] # "ok" THEN first
                 ELSE IF second[1] # "ok" THEN second
                 ELSE eval(e[1], l[2], r[2]) :
             l \in {evaluate(e[2])}, r \in {evaluate(e[3])}} : TRUE

\* fill_left(expr, done): <<the new tree, done afterwards>>
RECURSIVE fill_left(_, _, _)
fill_left(e, expr, done) ==
    IF IsOpenNode(e) THEN (IF done THEN <<Open, TRUE>> ELSE <<expr, TRUE>>)
    ELSE IF IsLit(e) THEN <<Lit(e[2]), done>>
    ELSE IF argOrder = "left"
         THEN CHOOSE filled \in
                 {CHOOSE both \in {<<Op(e[1], l[1], r[1]), r[2]>> :
                                      r \in {fill_left(e[3], expr, l[2])}} : TRUE :
                  l \in {fill_left(e[2], expr, done)}} : TRUE
         ELSE CHOOSE filled \in
                 {CHOOSE both \in {<<Op(e[1], l[1], r[1]), l[2]>> :
                                      l \in {fill_left(e[2], expr, r[2])}} : TRUE :
                  r \in {fill_left(e[3], expr, done)}} : TRUE

clone_and_fill(root, repl) == fill_left(root, repl, FALSE)[1]

RECURSIVE required(_, _)
required(e, t) ==
    IF IsOpenNode(e) THEN Ok(t)
    ELSE IF IsLit(e) THEN Thrown("lit")
    ELSE IF evaluable(e[2])
         THEN CHOOSE res \in
                 {IF l[1] # "ok" THEN l
                  ELSE CHOOSE sub \in {required(e[3], u) :
                                          u \in {solve_right(e[1], t, l[2])}} : TRUE :
                  l \in {evaluate(e[2])}} : TRUE
         ELSE CHOOSE res \in
                 {IF r[1] # "ok" THEN r
                  ELSE CHOOSE sub \in {required(e[2], u) :
                                          u \in {solve_left(e[1], t, r[2])}} : TRUE :
                  r \in {evaluate(e[3])}} : TRUE

(***************************************************************************)
(* order() and sorted(): strings are sequences of character codes, and     *)
(* std::string's < is the lexicographic order on them.                     *)
(***************************************************************************)
RECURSIVE Digits(_)
Digits(n) == IF n < 10 THEN <<48 + n>> ELSE Append(Digits(n \div 10), 48 + (n % 10))

\* std::to_string((int)value)
to_string(v) == IF v < 0 THEN <<45>> \o Digits(-v) ELSE Digits(v)

repr(c) == IF c = "+" THEN 43 ELSE IF c = "-" THEN 45 ELSE IF c = "*" THEN 42 ELSE 47

order(e) ==
    IF IsOpenNode(e) THEN <<111>>
    ELSE IF IsLit(e) THEN to_string(e[2])
    ELSE <<repr(e[1])>>

RECURSIVE StrLt(_, _)
StrLt(s, t) ==
    IF t = <<>> THEN FALSE
    ELSE IF s = <<>> THEN TRUE
    ELSE IF s[1] # t[1] THEN s[1] < t[1]
    ELSE StrLt(Tail(s), Tail(t))

\* Op<C>::sorted of the template, and the specialization Op<Add>::sorted
RECURSIVE sorted(_)
sorted(e) ==
    IF IsOpenNode(e) \/ IsLit(e) THEN TRUE
    ELSE IF e[1] = "+" THEN sorted(e[2]) /\ sorted(e[3])
    ELSE IF sorted(e[2]) /\ sorted(e[3])
         THEN (IF e[1] = "*" THEN StrLt(order(e[2]), order(e[3])) ELSE TRUE)
         ELSE FALSE

(***************************************************************************)
(* Best and better                                                         *)
(***************************************************************************)
\* Best(): the default candidate
BestDefault == [expr |-> Open, value |-> Zero]

\* Best(expr): the value is that of the tree, or 0.0 when evaluating it threw
\* DivisionByZeroException (any other exception leaves the constructor)
Best(expr) ==
    LET v == evaluate(expr)
    IN  [expr |-> expr, value |-> IF v[1] = "ok" THEN v[2] ELSE Zero]

\* a comparison that lets a candidate at equal distance replace the incumbent
better_or_equal(lhs, rhs, t) ==
    ~RLt[RAbs[RSub[rhs.value, R(t)]], RAbs[RSub[lhs.value, R(t)]]]

better(lhs, rhs, t) ==
    RLt[RAbs[RSub[lhs.value, R(t)]], RAbs[RSub[rhs.value, R(t)]]]

(***************************************************************************)
(* The memo table map<set<double>, map<double, shared_ptr<Expr>>>: a       *)
(* function from the keys present to the inner maps, an inner map being a  *)
(* set of <<value, expr>> pairs with one pair per value.                   *)
(***************************************************************************)
MemEmpty == <<>>

MemAt(m, k) == IF k \in DOMAIN m THEN m[k] ELSE {}

\* mem[k]: operator[] creates the inner map when the key is new
MemTouch(m, k) == [x \in (DOMAIN m) \cup {k} |-> MemAt(m, x)]

\* mem[k][v] = e
MemPut(m, k, v, e) ==
    [x \in (DOMAIN m) \cup {k} |->
        IF x = k THEN {p \in MemAt(m, k) : p[1] # v} \cup {<<v, e>>}
        ELSE m[x]]

\* inner.find(r): the pairs found, none or one.  A NaN key compares false with
\* every key, so the lower-bound descent ends at the least key and the final
\* test !(NaN < least) accepts it: find(NaN) is begin().
find(inner, r) ==
    IF IsNaN(r)
    THEN {p \in inner : \A o \in inner : ~RLt[o[1], p[1]]}
    ELSE {p \in inner : REq[p[1], r]}

(***************************************************************************)
(* Branching: the children of a node, as dfs, dfs_mem and astar generate   *)
(* them: one per remaining number in ascending order, then the four        *)
(* operators when the tree has fewer holes than numbers remain.            *)
(***************************************************************************)
Least(S) == CHOOSE x \in S : \A y \in S : x <= y

RECURSIVE Ascending(_)
Ascending(S) == IF S = {} THEN <<>> ELSE <<Least(S)>> \o Ascending(S \ {Least(S)})

\* a copy of the set that keeps the number just placed
next_numbers_kept(nums, number) == nums

\* set<double> next_numbers(numbers); next_numbers.erase(number);
next_numbers(nums, number) == nums \ {number}

\* branching that substitutes an operator whatever the number of holes
headroom_unchecked(expr, nums) == TRUE

\* the same test off by one
headroom_inclusive(expr, nums) == size(expr) <= Cardinality(nums)

\* expr->size() < numbers.size()
headroom(expr, nums) == size(expr) < Cardinality(nums)

children(expr, nums) ==
    LET asc == Ascending(nums)
    IN  [i \in 1..Len(asc) |->
            <<clone_and_fill(expr, Lit(asc[i])), next_numbers(nums, asc[i])>>]
        \o (IF headroom(expr, nums)
            THEN [i \in 1..4 |-> <<clone_and_fill(expr, FreshOp(OpNames[i])), nums>>]
            ELSE <<>>)

\* a leaf test that forgets the numbers that remain
is_leaf_any(expr, nums) == evaluable(expr)

\* numbers.empty() && expr->evaluable(): in this case we're on a leaf
is_leaf(expr, nums) == nums = {} /\ evaluable(expr)

\* a memo probe on every tree popped or visited
probe_unguarded(expr) == TRUE

\* if (expr->size() == 1): the guard of the memo probe
probe_guard(expr) == size(expr) = 1

\* a memo insertion filed under the numbers that remain
insert_key_remaining(expr, nums) == nums

\* the key a memo insertion files the tree under
insert_key(expr, nums) == numbers(expr)

(***************************************************************************)
(* Inputs.  Targets are 0..MaxTarget on the small inputs (the scenarios of *)
(* the specification's section 8 among them); the three-number input adds  *)
(* the cases where two disjoint subtrees both evaluate to zero, and the     *)
(* list <<2, 2>> is an input that names a number twice.                    *)
(***************************************************************************)
MaxTarget == 7

MaxExplored == 600

SmallInputs == {<<0>>, <<2, 3>>, <<1, 5>>, <<2, 4>>, <<0, 4>>, <<2, 2>>}

Scenarios == ((0..MaxTarget) \X SmallInputs) \cup {<<5, <<-1, 0, 1>>>>}

\* set<double> numbers built from the caller's list: a set keeps one of each value
to_set(list) == {list[i] : i \in DOMAIN list}

Strategies == {"dfs", "dfs_mem", "astar", "astar_uniq"}

Heuristics == {"cnt", "diff", "lg", "sm"}

(***************************************************************************)
(* The activation records of dfs and dfs_mem.  st is "call" on entry,      *)
(* "loop" while the children are being tried and "ret" once the call has   *)
(* its return value, ret.                                                  *)
(***************************************************************************)
Frame(e, n, b) ==
    [expr |-> e, numbers |-> n, best |-> b, next |-> 0, st |-> "call", ret |-> b]

Top == stack[Len(stack)]

SetTop(f) == [stack EXCEPT ![Len(stack)] = f]

Return(f, b) == [f EXCEPT !.st = "ret", !.ret = b]

NoResult == [done |-> FALSE, best |-> BestDefault, explored |-> 0]

NoExact == [set |-> FALSE, cand |-> BestDefault]

NullNode == [expr |-> Open, dist |-> Zero, numbers |-> {}]

NoFlags == [use_mem |-> FALSE, use_uniq_queue |-> FALSE, heuristic |-> "cnt"]

Running(s) == pc = s /\ ~result[s].done

\* the first scored candidate of the run whose value equals the target
Noted(c) ==
    IF ~exact.set /\ REq[c.value, R(target)] THEN [set |-> TRUE, cand |-> c] ELSE exact

\* an exception other than DivisionByZeroException: nothing catches it
Escapes(v) == v[1] \in {"open", "lit"}

ExceptionName(v) ==
    IF v[1] = "open" THEN "OpenNodeEvalException"
    ELSE IF v[1] = "lit" THEN "RequiredLiteralNodeException"
    ELSE "DivisionByZeroException"

Init ==
    /\ \E sc \in Scenarios : target = sc[1] /\ given = sc[2] /\ input = to_set(sc[2])
    /\ argOrder \in {"left", "right"}
    /\ pc = "dfs"
    /\ stack = <<Frame(Open, input, BestDefault)>>
    /\ explored = 0
    /\ mem = MemEmpty
    /\ best = BestDefault
    /\ q = <<>>
    /\ cur = NullNode
    /\ kid = 0
    /\ flags = NoFlags
    /\ result = [s \in Strategies |-> NoResult]
    /\ fatal = "none"
    /\ event = {}
    /\ exact = NoExact

\* the program ends on an uncaught exception
Crash(v) ==
    /\ pc' = "crashed"
    /\ fatal' = ExceptionName(v)
    /\ UNCHANGED <<stack, explored, mem, best, q, cur, kid, result, event, exact>>

(***************************************************************************)
(* dfs                                                                     *)
(***************************************************************************)
\* one call of dfs up to its first recursive call or its return
dfs ==
    /\ Running("dfs")
    /\ Top.st = "call"
    /\ explored < MaxExplored
    /\ LET f == Top
           v == evaluate(f.expr)
           current == Best(f.expr)
           nb == IF better(current, f.best, target) THEN current ELSE f.best
       IN  IF is_leaf(f.expr, f.numbers)
           THEN IF Escapes(v)
                THEN Crash(v)
                ELSE /\ stack' = SetTop(Return([f EXCEPT !.best = nb], nb))
                     /\ event' = {<<"score", v[1] = "dz">>}
                     /\ exact' = Noted(current)
                     /\ explored' = explored + 1
                     /\ UNCHANGED <<pc, fatal, mem, best, q, cur, kid, result>>
           ELSE /\ stack' = IF f.numbers # {} /\ ~evaluable(f.expr)
                            THEN SetTop([f EXCEPT !.st = "loop"])
                            ELSE SetTop(Return(f, f.best))
                /\ event' = {}
                /\ explored' = explored + 1
                /\ UNCHANGED <<pc, fatal, mem, best, q, cur, kid, result, exact>>
    /\ UNCHANGED <<target, given, input, argOrder, flags>>

(***************************************************************************)
(* dfs_mem                                                                 *)
(***************************************************************************)
StartDfsMem ==
    /\ pc = "dfs"
    /\ result["dfs"].done
    /\ pc' = "dfs_mem"
    /\ stack' = <<Frame(Open, input, BestDefault)>>
    /\ explored' = 0
    /\ mem' = MemEmpty
    /\ event' = {}
    /\ exact' = NoExact
    /\ UNCHANGED <<target, given, input, argOrder, best, q, cur, kid, flags, result, fatal>>

\* one call of dfs_mem up to its first recursive call or its return
dfs_mem ==
    /\ Running("dfs_mem")
    /\ Top.st = "call"
    /\ explored < MaxExplored
    /\ LET f == Top
           v == evaluate(f.expr)
           current == Best(f.expr)
           nb == IF better(current, f.best, target) THEN current ELSE f.best
           r == required(f.expr, R(target))
           hits == IF r[1] = "ok" THEN find(MemAt(mem, f.numbers), r[2]) ELSE {}
           it == CHOOSE p \in hits : TRUE
           answer == clone_and_fill(f.expr, it[2])
           av == evaluate(answer)
       IN  IF is_leaf(f.expr, f.numbers)
           THEN IF Escapes(v)
                THEN Crash(v)
                ELSE /\ stack' = SetTop(Return([f EXCEPT !.best = nb], nb))
                     /\ event' = {<<"score", v[1] = "dz">>}
                     /\ exact' = Noted(current)
                     /\ explored' = explored + 1
                     /\ UNCHANGED <<pc, fatal, mem, best, q, cur, kid, result>>
           ELSE IF f.numbers # {} /\ evaluable(f.expr)
           THEN IF Escapes(v)
                THEN Crash(v)
                ELSE /\ mem' = IF v[1] = "ok"
                               THEN MemPut(mem, insert_key(f.expr, f.numbers), v[2], f.expr)
                               ELSE mem
                     /\ stack' = SetTop(Return(f, f.best))
                     /\ event' = {<<"insert", v[1] = "dz">>}
                     /\ explored' = explored + 1
                     /\ UNCHANGED <<pc, fatal, best, q, cur, kid, result, exact>>
           ELSE IF f.numbers # {} /\ ~evaluable(f.expr)
           THEN IF ~probe_guard(f.expr)
                THEN /\ stack' = SetTop([f EXCEPT !.st = "loop"])
                     /\ event' = {}
                     /\ explored' = explored + 1
                     /\ UNCHANGED <<pc, fatal, mem, best, q, cur, kid, result, exact>>
                ELSE IF Escapes(r)
                THEN Crash(r)
                ELSE IF r[1] = "dz"
                THEN /\ stack' = SetTop([f EXCEPT !.st = "loop"])
                     /\ event' = {<<"required", TRUE>>}
                     /\ explored' = explored + 1
                     /\ UNCHANGED <<pc, fatal, mem, best, q, cur, kid, result, exact>>
                ELSE IF hits = {}
                THEN /\ stack' = SetTop([f EXCEPT !.st = "loop"])
                     /\ mem' = MemTouch(mem, f.numbers)
                     /\ event' = {<<"required", FALSE>>}
                     /\ explored' = explored + 1
                     /\ UNCHANGED <<pc, fatal, best, q, cur, kid, result, exact>>
                ELSE IF Escapes(av)
                THEN Crash(av)
                ELSE /\ stack' = SetTop(Return(f, Best(answer)))
                     /\ mem' = MemTouch(mem, f.numbers)
                     /\ event' = {<<"required", FALSE>>, <<"splice", av[1] = "dz">>}
                     /\ exact' = Noted(Best(answer))
                     /\ explored' = explored + 1
                     /\ UNCHANGED <<pc, fatal, best, q, cur, kid, result>>
           ELSE /\ stack' = SetTop(Return(f, f.best))
                /\ event' = {}
                /\ explored' = explored + 1
                /\ UNCHANGED <<pc, fatal, mem, best, q, cur, kid, result, exact>>
    /\ UNCHANGED <<target, given, input, argOrder, flags>>

\* the recursive call on the next child
Recurse ==
    /\ pc \in {"dfs", "dfs_mem"}
    /\ ~result[pc].done
    /\ Top.st = "loop"
    /\ LET f == Top
           ch == children(f.expr, f.numbers)
       IN  /\ f.next < Len(ch)
           /\ stack' = Append(SetTop([f EXCEPT !.next = f.next + 1]),
                              Frame(ch[f.next + 1][1], ch[f.next + 1][2], f.best))
    /\ event' = {}
    /\ UNCHANGED <<target, given, input, argOrder, pc, explored, mem, best, q, cur, kid,
                   flags, result, fatal, exact>>

\* a call returns: its caller keeps the returned candidate when it is better and
\* returns at once when its best equals the target
Returned ==
    /\ pc \in {"dfs", "dfs_mem"}
    /\ ~result[pc].done
    /\ LET f == Top
           rv == IF f.st = "ret" THEN f.ret ELSE f.best
       IN  /\ \/ f.st = "ret"
              \/ f.st = "loop" /\ f.next = Len(children(f.expr, f.numbers))
           /\ IF Len(stack) = 1
              THEN /\ stack' = <<>>
                   /\ result' = [result EXCEPT ![pc] =
                                    [done |-> TRUE, best |-> rv, explored |-> explored]]
              ELSE LET c == stack[Len(stack) - 1]
                       nb == IF better(rv, c.best, target) THEN rv ELSE c.best
                       c2 == [c EXCEPT !.best = nb]
                   IN  /\ stack' = SubSeq(stack, 1, Len(stack) - 2)
                                   \o <<IF REq[nb.value, R(target)] THEN Return(c2, nb) ELSE c2>>
                       /\ UNCHANGED result
    /\ event' = {}
    /\ UNCHANGED <<target, given, input, argOrder, pc, explored, mem, best, q, cur, kid,
                   flags, fatal, exact>>

(***************************************************************************)
(* astar.  priority_queue<Node> keeps its nodes in a vector as a binary    *)
(* heap: emplace is push_back then std::push_heap, pop is std::pop_heap    *)
(* then pop_back, top is the front.  The two sift procedures are those of  *)
(* the C++ library the program is built with (libstdc++), written by their *)
(* net effect on the array; they decide which of several nodes of equal    *)
(* dist is popped first.  Indices are 0-based as in the library; the       *)
(* sequence is 1-based.                                                    *)
(***************************************************************************)
Node(expr, dist, nums) == [expr |-> expr, dist |-> dist, numbers |-> nums]

\* bool operator<(const Node &lhs, const Node &rhs)
NodeLess(lhs, rhs) == RLt[rhs.dist, lhs.dist]

\* std::push_heap: the new last element climbs while its parent is less than
\* it.  climb is the index it stops at; every node on the way moves down one level.
RECURSIVE climb(_, _, _)
climb(h, hole, value) ==
    IF hole > 0 /\ NodeLess(h[((hole - 1) \div 2) + 1], value)
    THEN climb(h, (hole - 1) \div 2, value)
    ELSE hole

RECURSIVE ancestors(_, _)
ancestors(hole, stop) ==
    IF hole = stop THEN {} ELSE {hole} \cup ancestors((hole - 1) \div 2, stop)

\* q.emplace(expr, dist, numbers)
q_emplace(h, n) ==
    CHOOSE pushed \in
        {[i \in 1..Len(h) + 1 |->
             IF i - 1 = at THEN n
             ELSE IF i - 1 \in ancestors(Len(h), at) THEN h[((i - 2) \div 2) + 1]
             ELSE h[i]] :
         at \in {climb(h, Len(h), n)}} : TRUE

\* std::pop_heap, first half (__adjust_heap): the hole left at the front sinks to
\* the bottom, each time taking the place of the child that is not less than the
\* other; descent is the path of the hole, front first.
RECURSIVE descent(_, _, _)
descent(h, child, len) ==
    IF child < (len - 1) \div 2
    THEN LET c == 2 * (child + 1)
             c2 == IF NodeLess(h[c + 1], h[c]) THEN c - 1 ELSE c
         IN  <<c2>> \o descent(h, c2, len)
    ELSE IF len % 2 = 0 /\ child = (len - 2) \div 2
    THEN <<2 * (child + 1) - 1>>
    ELSE <<>>

\* second half (__push_heap): the element taken from the back climbs from the
\* bottom of that path while the node above it is less than it; settle is the
\* place on the path where it stops.
RECURSIVE settle(_, _, _, _)
settle(h, path, j, value) ==
    IF j > 1 /\ NodeLess(h[path[j] + 1], value)
    THEN settle(h, path, j - 1, value)
    ELSE j

\* the array once the element from the back has stopped at place j of the path
sifted(h, path, j) ==
    LET place(i) == CHOOSE k \in 1..Len(path) : path[k] = i
    IN  [i \in 1..Len(h) - 1 |->
            IF \A k \in 1..Len(path) : path[k] # i - 1 THEN h[i]
            ELSE IF place(i - 1) < j THEN h[path[place(i - 1) + 1] + 1]
            ELSE IF place(i - 1) = j THEN h[Len(h)]
            ELSE h[i]]

\* q.pop()
q_pop(h) ==
    IF Len(h) <= 1 THEN <<>>
    ELSE CHOOSE popped \in
            {CHOOSE a \in {sifted(h, path, j) :
                              j \in {settle(h, path, Len(path), h[Len(h)])}} : TRUE :
             path \in {<<0>> \o descent(h, 0, Len(h) - 1)}} : TRUE

(***************************************************************************)
(* The four heuristics run_test passes to astar                            *)
(***************************************************************************)
heuristic(h, expr) ==
    LET missing == evaluate_missing(expr)
        div == RQuot[R(target), missing]
    IN  IF h = "cnt" THEN R(Cardinality(input) - Cardinality(numbers(expr)))
        ELSE IF h = "diff" THEN RAbs[RSub[R(target), missing]]
        ELSE IF h = "lg" THEN (IF RLt[div, One] THEN RQuot[One, div] ELSE div)
        ELSE (IF RLt[One, div] THEN RQuot[One, div] ELSE div)

\* lines 516-523 of astar: best, the queue holding the root, explored, mem
Begin(f) ==
    /\ flags' = f
    /\ best' = BestDefault
    /\ q' = q_emplace(<<>>, Node(Open, heuristic(f.heuristic, Open), input))
    /\ explored' = 1
    /\ mem' = MemEmpty
    /\ cur' = NullNode
    /\ kid' = 0
    /\ event' = {}
    /\ exact' = NoExact
    /\ UNCHANGED <<target, given, input, argOrder, stack, result, fatal>>

\* astar(target, numbers, explored, use_mem, false, heuristic)
StartAstar ==
    /\ pc = "dfs_mem"
    /\ result["dfs_mem"].done
    /\ pc' = "astar"
    /\ \E m \in BOOLEAN, h \in Heuristics :
          Begin([use_mem |-> m, use_uniq_queue |-> FALSE, heuristic |-> h])

\* astar(target, numbers, explored, use_mem, true, heuristic), same use_mem and heuristic
StartAstarUniq ==
    /\ pc = "astar"
    /\ result["astar"].done
    /\ pc' = "astar_uniq"
    /\ Begin([flags EXCEPT !.use_uniq_queue = TRUE])

InAstar == pc \in {"astar", "astar_uniq"} /\ ~result[pc].done

Pending == children(cur.expr, cur.numbers)

Finished(b) == [result EXCEPT ![pc] = [done |-> TRUE, best |-> b, explored |-> explored]]

\* one turn of the while loop up to the expansion: top, pop and the memo probe
Pop ==
    /\ InAstar
    /\ kid = Len(Pending)
    /\ q # <<>>
    /\ ~REq[best.value, R(target)]
    /\ LET c == q[1]
           r == required(c.expr, R(target))
           hits == IF r[1] = "ok" THEN find(MemAt(mem, c.numbers), r[2]) ELSE {}
           it == CHOOSE p \in hits : TRUE
           answer == clone_and_fill(c.expr, it[2])
           av == evaluate(answer)
           Expand(ev, m) ==
               /\ cur' = c
               /\ q' = q_pop(q)
               /\ kid' = 0
               /\ mem' = m
               /\ event' = ev
               /\ UNCHANGED <<pc, fatal, best, result, exact>>
       IN  IF ~(flags.use_mem /\ probe_guard(c.expr))
           THEN Expand({}, mem)
           ELSE IF Escapes(r)
           THEN Crash(r)
           ELSE IF r[1] = "dz"
           THEN Expand({<<"required", TRUE>>}, mem)
           ELSE IF hits = {}
           THEN Expand({<<"required", FALSE>>}, MemTouch(mem, c.numbers))
           ELSE IF Escapes(av)
           THEN Crash(av)
           ELSE /\ cur' = c
                /\ q' = q_pop(q)
                /\ kid' = Len(children(c.expr, c.numbers))
                /\ mem' = MemTouch(mem, c.numbers)
                /\ best' = Best(answer)
                /\ result' = Finished(Best(answer))
                /\ event' = {<<"required", FALSE>>, <<"splice", av[1] = "dz">>}
                /\ exact' = Noted(Best(answer))
                /\ UNCHANGED <<pc, fatal>>
    /\ UNCHANGED <<target, given, input, argOrder, stack, explored, flags>>

\* emplace(...) on the next child of cur
emplace ==
    /\ InAstar
    /\ kid < Len(Pending)
    /\ explored < MaxExplored
    /\ \E child \in {Pending[kid + 1]} :
       \E v \in {evaluate(child[1])} :
       \E opt \in {Best(child[1])} :
           LET expr == child[1]
               nums == child[2]
           IN  IF evaluable(expr)
               THEN IF Escapes(v)
                    THEN Crash(v)
                    ELSE /\ best' = IF nums = {} /\ better(opt, best, target) THEN opt ELSE best
                         /\ mem' = IF flags.use_mem /\ v[1] = "ok"
                                   THEN MemPut(mem, insert_key(expr, nums), v[2], expr)
                                   ELSE mem
                         /\ event' = (IF nums = {} THEN {<<"score", v[1] = "dz">>} ELSE {})
                                     \cup (IF flags.use_mem
                                           THEN {<<"insert", v[1] = "dz">>} ELSE {})
                         /\ exact' = IF nums = {} THEN Noted(opt) ELSE exact
                         /\ kid' = kid + 1
                         /\ explored' = explored + 1
                         /\ UNCHANGED <<pc, fatal, q, cur, result>>
               ELSE /\ \E n \in {Node(expr, heuristic(flags.heuristic, expr), nums)} :
                           q' = IF flags.use_uniq_queue /\ ~sorted(expr)
                                THEN q
                                ELSE q_emplace(q, n)
                    /\ event' = {}
                    /\ kid' = kid + 1
                    /\ explored' = explored + 1
                    /\ UNCHANGED <<pc, fatal, best, mem, cur, result, exact>>
    /\ UNCHANGED <<target, given, input, argOrder, stack, flags>>

\* the while loop ends: return best
Leave ==
    /\ InAstar
    /\ kid = Len(Pending)
    /\ q = <<>> \/ REq[best.value, R(target)]
    /\ result' = Finished(best)
    /\ event' = {}
    /\ UNCHANGED <<target, given, input, argOrder, pc, stack, explored, mem, best, q, cur,
                   kid, flags, fatal, exact>>

Done == pc = "astar_uniq" /\ result[pc].done

Next ==
    \/ dfs
    \/ StartDfsMem
    \/ dfs_mem
    \/ Recurse
    \/ Returned
    \/ StartAstar
    \/ StartAstarUniq
    \/ Pop
    \/ emplace
    \/ Leave

Spec == Init /\ [][Next]_vars

\* a sequential program always takes its next step
LiveSpec == Spec /\ WF_vars(Next)

(***************************************************************************)
(* Notions the properties below speak of                                   *)
(***************************************************************************)
Combine(a, b) ==
    {RAdd[a, b], RSub[a, b], RMul[a, b]} \cup (IF b = Zero THEN {} ELSE {RQuot[a, b]})

\* the values of the arithmetic expressions that use every number of S exactly once
RECURSIVE ValuesOf(_)
ValuesOf(S) ==
    IF Cardinality(S) <= 1 THEN {R(x) : x \in S}
    ELSE UNION {UNION {Combine(a, b) : <<a, b>> \in ValuesOf(A) \X ValuesOf(S \ A)} :
                    A \in (SUBSET S) \ {{}, S}}

\* ... that use some or all of the numbers of S, each at most once
Achievable(S) == UNION {ValuesOf(A) : A \in (SUBSET S) \ {{}}}

\* the same with + and * alone
RECURSIVE SumProductValuesOf(_)
SumProductValuesOf(S) ==
    IF Cardinality(S) <= 1 THEN {R(x) : x \in S}
    ELSE UNION {UNION {{RAdd[a, b], RMul[a, b]} :
                          <<a, b>> \in SumProductValuesOf(A) \X SumProductValuesOf(S \ A)} :
                    A \in (SUBSET S) \ {{}, S}}

Dist(v) == RAbs[RSub[v, R(target)]]

Closest(v, S) == \A w \in S : ~RLt[Dist(w), Dist(v)]

RECURSIVE Occurrences(_, _)
Occurrences(e, x) ==
    IF IsOpenNode(e) THEN 0
    ELSE IF IsLit(e) THEN (IF e[2] = x THEN 1 ELSE 0)
    ELSE Occurrences(e[2], x) + Occurrences(e[3], x)

\* a Div node whose right operand evaluates to zero
RECURSIVE DividesByZero(_)
DividesByZero(e) ==
    /\ IsOp(e)
    /\ \/ e[1] = "/" /\ evaluate(e[3]) = Ok(Zero)
       \/ DividesByZero(e[2])
       \/ DividesByZero(e[3])

\* required() reaches the hole of e without evaluating a hole and without ending on a literal
RECURSIVE RequiredIsSafe(_)
RequiredIsSafe(e) ==
    IF IsOpenNode(e) THEN TRUE
    ELSE IF IsLit(e) THEN FALSE
    ELSE IF evaluable(e[2]) THEN RequiredIsSafe(e[3])
    ELSE evaluable(e[3]) /\ RequiredIsSafe(e[2])

Returns(s) == result[s].best

InDfs == pc \in {"dfs", "dfs_mem"} /\ stack # <<>>

\* the best candidate the running search holds
Incumbent == IF InDfs THEN (IF Top.st = "ret" THEN Top.ret ELSE Top.best) ELSE best

Raised(site) == <<site, TRUE>> \in event

Probed == \E d \in BOOLEAN : <<"required", d>> \in event

\* the tree the last step called required() on
ProbedTree == IF pc = "dfs_mem" THEN Top.expr ELSE cur.expr

(***************************************************************************)
(* C1: the candidate dfs returns is at minimal distance from the target    *)
(* among the values of all expressions over some or all of the numbers.    *)
(***************************************************************************)
C1_DfsClosestOverSubsets ==
    result["dfs"].done => Closest(Returns("dfs").value, Achievable(input))

(***************************************************************************)
(* C2: dfs, dfs_mem and astar without use_uniq_queue return the same value *)
(* on the same input, whatever use_mem and the heuristic are.              *)
(***************************************************************************)
C2_StrategiesAgree ==
    result["astar"].done =>
        /\ REq[Returns("dfs_mem").value, Returns("dfs").value]
        /\ REq[Returns("astar").value, Returns("dfs").value]

(***************************************************************************)
(* C3: every literal of a returned tree is an input number, and no input   *)
(* number occurs in it more often than in the input (once: the input is a  *)
(* set).                                                                   *)
(***************************************************************************)
C3_SubsetUse ==
    \A s \in Strategies :
        result[s].done =>
            /\ numbers(Returns(s).expr) \subseteq input
            /\ \A x \in input : Occurrences(Returns(s).expr, x) <= 1

C3_Witness ==
    /\ result["astar"].done
    /\ \E d \in BOOLEAN : <<"splice", d>> \in event
    /\ numbers(Returns("astar").expr) = input
    /\ Cardinality(input) = 3

(***************************************************************************)
(* C4: the returned tree has no Open node, and evaluating it succeeds and  *)
(* yields the returned value.                                              *)
(***************************************************************************)
C4_ValueConsistent ==
    \A s \in Strategies :
        result[s].done =>
            /\ evaluable(Returns(s).expr)
            /\ evaluate(Returns(s).expr) = Ok(Returns(s).value)

(***************************************************************************)
(* C5: when a closest value can be written with + and * alone, astar with  *)
(* use_uniq_queue returns the same value as astar without it.              *)
(***************************************************************************)
C5_DedupSound ==
    (/\ result["astar_uniq"].done
     /\ \E v \in SumProductValuesOf(input) : Closest(v, Achievable(input)))
        => REq[Returns("astar_uniq").value, Returns("astar").value]

(***************************************************************************)
(* C6: once a scored candidate's value equals the target, the run explores *)
(* no further node, builds and pushes no further tree, and returns that    *)
(* candidate.                                                              *)
(***************************************************************************)
C6_EarlyExit ==
    [][/\ (exact.set /\ pc' = pc) =>
            /\ explored' = explored
            /\ Len(stack') <= Len(stack)
            /\ Len(q') <= Len(q)
       /\ (exact'.set /\ pc' = pc /\ result'[pc].done) =>
            result'[pc].best = exact'.cand]_vars

(***************************************************************************)
(* C7: no returned tree contains a Div node whose right operand evaluates  *)
(* to zero.                                                                *)
(***************************************************************************)
C7_NoZeroDivisorReturned ==
    \A s \in Strategies : result[s].done => ~DividesByZero(Returns(s).expr)

C9_Terminates ==
    /\ [](/\ \A i \in 1..Len(stack) : size(stack[i].expr) <= Cardinality(stack[i].numbers)
          /\ \A i \in 1..Len(q) : size(q[i].expr) <= Cardinality(q[i].numbers))
    /\ <>Done

C9_Witness ==
    /\ Done
    /\ Cardinality(input) = 3
    /\ \A s \in Strategies : result[s].explored < MaxExplored

(***************************************************************************)
(* C10: no run evaluates a tree that has an Open node, and required() is   *)
(* only called on a tree with exactly one Open whose path to the hole has  *)
(* an evaluable sibling at every node, so it never ends on a literal.      *)
(***************************************************************************)
C10_NoFatalLogicError ==
    /\ fatal = "none"
    /\ pc # "crashed"
    /\ Probed => size(ProbedTree) = 1 /\ RequiredIsSafe(ProbedTree)

C10_Witness ==
    /\ Probed
    /\ IsOp(ProbedTree)
    /\ IsOp(ProbedTree[2]) \/ IsOp(ProbedTree[3])

(***************************************************************************)
(* Further notions                                                         *)
(***************************************************************************)
\* how often x is written in the caller's list
Count(list, x) == Cardinality({i \in DOMAIN list : list[i] = x})

\* the (tree, remaining numbers) pairs the running search holds: the calls on
\* the stack, the node being expanded and the frontier
Visited ==
    {<<stack[i].expr, stack[i].numbers>> : i \in 1..Len(stack)}
    \cup {<<q[i].expr, q[i].numbers>> : i \in 1..Len(q)}
    \cup (IF InAstar /\ cur # NullNode THEN {<<cur.expr, cur.numbers>>} ELSE {})

(***************************************************************************)
(* C11: a number written k times in the input is k independent slots: in   *)
(* every (tree, remaining numbers) pair of a search the leaves that hold it *)
(* and the instances that remain add up to k, and an input of one number    *)
(* written twice whose sum is the target yields that exact candidate.       *)
(***************************************************************************)
C11_DuplicatesAreSlots ==
    /\ \A v \in Visited : \A x \in to_set(given) :
            Occurrences(v[1], x) + Count(Ascending(v[2]), x) = Count(given, x)
    /\ \A s \in Strategies :
            (/\ result[s].done
             /\ Len(given) = 2
             /\ given[1] = given[2]
             /\ given[1] + given[2] = target)
                => REq[Returns(s).value, R(target)]

(***************************************************************************)
(* C12 as stated: every tree built during a search, other than the bare    *)
(* Open root, contains exactly one Open node.                              *)
(***************************************************************************)
C12_SingleHole ==
    \A v \in Visited : v[1] # Open => size(v[1]) = 1

(***************************************************************************)
(* C12 as amended: every tree built during a search, other than the bare   *)
(* Open root, contains at most as many Open nodes as the input has         *)
(* distinct numbers (none when it is complete), and the memo probe is      *)
(* applied only to a tree with exactly one.                                *)
(***************************************************************************)
C12_BoundedHoles ==
    /\ \A v \in Visited : v[1] # Open => size(v[1]) <= Cardinality(input)
    /\ Probed => size(ProbedTree) = 1

C12_Witness ==
    /\ \E v \in Visited : size(v[1]) = 3
    /\ \E v \in Visited : v[1] # Open /\ size(v[1]) = 0

\* e with its first Open in left-to-right depth-first order replaced by repl
RECURSIVE FirstOpenFilled(_, _)
FirstOpenFilled(e, repl) ==
    IF IsOpenNode(e) THEN repl
    ELSE IF IsLit(e) THEN e
    ELSE IF size(e[2]) > 0 THEN Op(e[1], FirstOpenFilled(e[2], repl), e[3])
    ELSE Op(e[1], e[2], FirstOpenFilled(e[3], repl))

\* what the searches substitute into a tree that is left with the numbers nums
Substitutes(expr, nums) ==
    {Lit(x) : x \in nums}
    \cup (IF headroom(expr, nums) THEN {FreshOp(OpNames[i]) : i \in 1..4} ELSE {})

(***************************************************************************)
(* C13: clone_and_fill(root, repl) on a tree with an Open is root with its *)
(* first Open in left-to-right depth-first order replaced by repl and      *)
(* everything else in place, so it has size(root) - 1 + size(repl) Opens.  *)
(***************************************************************************)
C13_FillsFirstOpen ==
    \A v \in Visited : \A repl \in Substitutes(v[1], v[2]) :
        size(v[1]) > 0 =>
            /\ clone_and_fill(v[1], repl) = FirstOpenFilled(v[1], repl)
            /\ size(clone_and_fill(v[1], repl)) = size(v[1]) - 1 + size(repl)

\* the last step spliced a memoized subtree into the hole of the probed tree
Spliced == \E d \in BOOLEAN : <<"splice", d>> \in event

(***************************************************************************)
(* C14: when the memo probe hits, the tree obtained by filling the hole    *)
(* with the memoized expression evaluates to exactly the target.           *)
(***************************************************************************)
C14_SpliceIsExact ==
    Spliced =>
        /\ evaluate(Incumbent.expr) = Ok(R(target))
        /\ REq[Incumbent.value, R(target)]

\* the calls that are on the stack before and after a step
Kept == 1..(IF Len(stack) < Len(stack') THEN Len(stack) ELSE Len(stack'))

\* best moved from b to c by strict improvement, or stayed
Improved(b, c) == c = b \/ RLt[Dist(c.value), Dist(b.value)]

(***************************************************************************)
(* C15: within a run the incumbent best (the best of every call of dfs and *)
(* dfs_mem, the best of astar) is replaced only by a candidate strictly    *)
(* closer to the target, the memo hit of astar included.                   *)
(***************************************************************************)
C15_StrictImprovementOnly ==
    [][pc' = pc =>
          /\ \A i \in Kept : Improved(stack[i].best, stack'[i].best)
          /\ InAstar => Improved(best, best')]_vars

\* the (tree, numbers) pair the next call of emplace receives
Generated == Pending[kid + 1]

\* the step is a call of emplace
Emplacing == InAstar /\ kid < Len(Pending) /\ kid' = kid + 1

(***************************************************************************)
(* C16: every entry of the frontier of astar holds a tree with at least    *)
(* one Open node; a tree without holes is never pushed, and when no numbers*)
(* remain it is compared against best in the call of emplace that receives *)
(* it, before the next pop.                                                *)
(***************************************************************************)
C16_FrontierHasOpen ==
    /\ [](\A i \in 1..Len(q) : size(q[i].expr) >= 1)
    /\ [][Emplacing /\ size(Generated[1]) = 0 =>
             /\ q' = q
             /\ Generated[2] = {} =>
                   ~RLt[Dist(Best(Generated[1]).value), Dist(best'.value)]]_vars

C16_Witness == InAstar /\ <<"score", FALSE>> \in event /\ Len(q) >= 2

\* at every Add and Mul node the left key does not exceed the right key
RECURSIVE Canonical(_)
Canonical(e) ==
    IF IsOpenNode(e) \/ IsLit(e) THEN TRUE
    ELSE /\ Canonical(e[2])
         /\ Canonical(e[3])
         /\ e[1] \in {"+", "*"} => ~StrLt(order(e[3]), order(e[2]))

\* the call of emplace pushes its tree
Pushes == Len(q') = Len(q) + 1

(***************************************************************************)
(* C17: with use_uniq_queue a generated tree with holes is pushed exactly  *)
(* when, at each of its Add and Mul nodes, the left key does not exceed    *)
(* the right key: of two trees that differ by the swap of the operands of  *)
(* one Add or Mul node one is pushed, a fresh operator with two Open       *)
(* children is pushed, and Sub and Div nodes reject nothing.               *)
(***************************************************************************)
C17_OneTwinPushed ==
    [][pc = "astar_uniq" /\ Emplacing /\ size(Generated[1]) >= 1 =>
          (Pushes <=> Canonical(Generated[1]))]_vars

\* the memo as a set of <<key set, value, expression>> entries
Entries(m) == UNION {{<<S, p[1], p[2]>> : p \in m[S]} : S \in DOMAIN m}

\* the <<key set, value>> slots whose content differs between two memos
Rewritten(m, n) ==
    {<<x[1], x[2]>> : x \in (Entries(m) \ Entries(n)) \cup (Entries(n) \ Entries(m))}

(***************************************************************************)
(* C18: in dfs_mem and astar with use_mem every memo entry mem[S][v] = e   *)
(* has no Open node in e, the literals of e are exactly S, e evaluates to  *)
(* v without a division by zero, and e was recorded while numbers remained *)
(* (S is not the whole input); an insertion rewrites one slot <<S, v>> and *)
(* leaves every other entry as it was.                                     *)
(***************************************************************************)
C18_MemoEntries ==
    /\ [](\A x \in Entries(mem) :
             /\ evaluable(x[3])
             /\ numbers(x[3]) = x[1]
             /\ evaluate(x[3]) = Ok(x[2])
             /\ x[1] # input)
    /\ [][pc' = pc =>
             /\ Cardinality(Rewritten(mem, mem')) <= 1
             /\ \A x \in Entries(mem) : \E y \in Entries(mem') : y[1] = x[1] /\ y[2] = x[2]]_vars

\* the pairs the expansion of cur hands to emplace
Handed == IF InAstar THEN {Pending[i] : i \in 1..Len(Pending)} ELSE {}

\* the visited pairs whose tree has more holes than numbers remain
Stranded == {v \in Visited \cup Handed : size(v[1]) > Cardinality(v[2])}

(***************************************************************************)
(* C19: every (tree, remaining numbers) pair visited by dfs, dfs_mem or    *)
(* astar has size(tree) <= |remaining numbers|, so a visited pair with no  *)
(* remaining numbers has an evaluable tree.                                *)
(***************************************************************************)
C19_HolesFitNumbers ==
    /\ Stranded = {}
    /\ \A v \in Visited \cup Handed : v[2] = {} => evaluable(v[1])

C19_Witness ==
    \E v \in Visited \cup Handed : v[2] = {} /\ IsOp(v[1]) /\ Cardinality(numbers(v[1])) = 3

\* the tree uses every distinct input number exactly once and has no hole
FullUse(e) ==
    /\ evaluable(e)
    /\ numbers(e) = input
    /\ \A x \in input : Occurrences(e, x) = 1

\* the candidates the searches hold or have returned
Held ==
    {stack[i].best : i \in 1..Len(stack)}
    \cup {stack[i].ret : i \in 1..Len(stack)}
    \cup {best, exact.cand}
    \cup {Returns(s) : s \in Strategies}

\* the step is a call of dfs or dfs_mem on the top frame
Calling == InDfs /\ Top.st = "call" /\ explored' = explored + 1

\* the step scores a tree
Scores == \E d \in BOOLEAN : <<"score", d>> \in event'

(***************************************************************************)
(* C20: every candidate a strategy compares against best or returns, other *)
(* than the default Best(), uses every distinct input number exactly once; *)
(* an evaluable tree reached while numbers remain is not scored and leaves *)
(* best as it was.                                                         *)
(***************************************************************************)
C20_CandidatesUseAll ==
    /\ [](\A b \in Held : b = BestDefault \/ FullUse(b.expr))
    /\ [][/\ Calling /\ Scores => FullUse(Top.expr)
          /\ Calling /\ evaluable(Top.expr) /\ Top.numbers # {} =>
                ~Scores /\ stack'[Len(stack)].ret = Top.best /\ exact' = exact
          /\ Emplacing /\ Scores => FullUse(Generated[1])
          /\ Emplacing /\ evaluable(Generated[1]) /\ Generated[2] # {} =>
                ~Scores /\ best' = best /\ exact' = exact]_vars

C20_Witness ==
    /\ \E d \in BOOLEAN : <<"score", d>> \in event
    /\ Incumbent # BestDefault
    /\ Cardinality(input) = 3

\* the substitutions that built a tree from the bare Open: one per literal
\* and one per operator
RECURSIVE Substitutions(_)
Substitutions(e) ==
    IF IsOpenNode(e) THEN 0
    ELSE IF IsLit(e) THEN 1
    ELSE 1 + Substitutions(e[2]) + Substitutions(e[3])

\* nested calls of dfs or dfs_mem below the initial call
Depth == IF InDfs THEN Len(stack) - 1 ELSE 0

\* the trees of the frontier, the tree under expansion and its children
FrontierTrees ==
    {q[i].expr : i \in 1..Len(q)}
    \cup (IF InAstar THEN {cur.expr} ELSE {})
    \cup {h[1] : h \in Handed}

\* the bound k holds of the recursion and of the frontier
DepthWithin(k) ==
    /\ Depth <= k
    /\ \A e \in FrontierTrees : Substitutions(e) <= k

(***************************************************************************)
(* C21, as stated: for an input of n numbers the recursion depth of dfs    *)
(* and dfs_mem and the number of substitutions applied to a frontier tree  *)
(* never exceed n.                                                         *)
(***************************************************************************)
C21_DepthWithinCount == DepthWithin(Len(given))

(***************************************************************************)
(* C21, amended: for a non-empty input of n numbers the recursion depth of *)
(* dfs and dfs_mem and the number of substitutions applied to a frontier   *)
(* tree never exceed 2n - 1, the node count of a complete tree.            *)
(***************************************************************************)
C21_DepthWithinTreeSize == DepthWithin(2 * Len(given) - 1)

C21_Witness ==
    /\ Len(given) = 3
    /\ \/ Depth = 5
       \/ \E e \in FrontierTrees : Substitutions(e) = 5

====
